---- MODULE Spec2Model ----
(***************************************************************************)
(* Model of the URL uploader bot (src/src/bot.rs).                         *)
(*                                                                         *)
(* Bot::run spawns one tokio task per update on the multi-threaded runtime *)
(* (#[tokio::main]).  A task is either handle_url (a transfer request) or  *)
(* handle_cancel (a press of the "Cancel" button of a status message).     *)
(* The tasks share three concurrent maps: locks, started_by and triggers.  *)
(* Every operation on one of these maps is atomic by itself, but two       *)
(* consecutive operations of one task are not atomic together, so every    *)
(* map operation and every await is a step of its own here.                *)
(*                                                                         *)
(* Byte counts reach 2 * 1024^3 + 1, which is more than a TLC integer      *)
(* holds, so a byte count is a pair of limbs [hi, lo] standing for         *)
(* hi * 1024^3 + lo.                                                       *)
(*                                                                         *)
(* Spec follows transfer requests and cancel presses of uploads that end   *)
(* before the first progress interval elapses, SpecFair is Spec under fair *)
(* scheduling of the transfer tasks, SpecProgress follows a transfer       *)
(* together with the progress edits its callback spawns, SpecRepeat        *)
(* follows the requests of Spec with repeated cancel presses, and          *)
(* SpecChats follows them in several chats.                                *)
(*                                                                         *)
(* Outside the repository and taken as follows: a response body ends at    *)
(* its declared length (reqwest), a dropped Trigger ends the Valved stream *)
(* at its next read (stream_cancel), the progress reader counts the bytes  *)
(* read and calls back once per elapsed interval (async_read_progress),    *)
(* and upload_stream reads a part, sends it, and on a stream that ends     *)
(* early either fails or stores what it got (grammers_client).             *)
(***************************************************************************)
EXTENDS Integers, FiniteSets, Sequences, TLC

(* ---------------------------- bounds ---------------------------------- *)
NumChats == 1
NumParallelChats == 2
NumUsers == 2
NumUrlTasks == 2
NumCancelTasks == 1
NumReportedTasks == 1
NumReportedCancels == 2
MaxSmall == 1
MaxPieces == 2

Max(a, b) == IF a >= b THEN a ELSE b
\* the chats: the specifications follow the requests of NumChats chats,
\* SpecChats those of NumParallelChats chats
Chats == 1..Max(NumChats, NumParallelChats)
Users == 1..NumUsers
\* the tasks of the specifications: Spec follows NumUrlTasks requests
\* and NumCancelTasks presses of uploads shorter than the progress interval;
\* SpecProgress follows NumReportedTasks requests with their progress edits
\* and NumReportedCancels presses
UrlTasks == 1..Max(NumUrlTasks, NumReportedTasks)
CancelTasks == 1..Max(NumCancelTasks, NumReportedCancels)

\* an absent id: Option::None, or no entry in a map
None == 0

(* ------------------------- byte counts -------------------------------- *)
GiB == 1024 * 1024 * 1024

B(h, l) == [hi |-> h, lo |-> l]

Zero == B(0, 0)

Leq(a, b) == a.hi < b.hi \/ (a.hi = b.hi /\ a.lo <= b.lo)

Gt(a, b) == ~Leq(a, b)

Add(a, b) ==
    LET s == a.lo + b.lo
    IN  IF s >= GiB THEN B(a.hi + b.hi + 1, s - GiB) ELSE B(a.hi + b.hi, s)

\* a - b, for b <= a
Sub(a, b) ==
    IF a.lo >= b.lo THEN B(a.hi - b.hi, a.lo - b.lo)
    ELSE B(a.hi - b.hi - 1, a.lo + GiB - b.lo)

MinB(a, b) == IF Leq(a, b) THEN a ELSE b

RECURSIVE Times(_, _)
Times(a, k) == IF k = 0 THEN Zero ELSE Add(a, Times(a, k - 1))

\* 2 * 1024 * 1024 * 1024, the size ceiling of handle_url
SizeLimit == B(2, 0)

(* ----------------------------- state ---------------------------------- *)
VARIABLES
    locks,        \* Bot.locks: the chats with an active upload
    started_by,   \* Bot.started_by: chat -> id of the user who started it
    triggers,     \* Bot.triggers: chat -> the Trigger of a transfer's valve
    url,          \* the handle_url tasks: position and locals
    valve,        \* per transfer: its Valved stream; "cancelled" once handle_cancel
                  \* dropped its Trigger, "closed" once anything else dropped it
    status,       \* per transfer: its status message, as the chat shows it
    renders,      \* per transfer: progress edits spawned and not yet applied
    replies,      \* per transfer: the replies sent to the request message
    unlocked,     \* per transfer: how often its deferred unlock has run
    cb            \* the handle_cancel tasks: position and locals

vars == <<locks, started_by, triggers, url, valve, status, renders, replies,
          unlocked, cb>>

shared == <<locks, started_by, triggers>>

IdleUrl ==
    [pc |-> "idle", chat |-> None, sender |-> None, lock |-> FALSE,
     length |-> Zero, read |-> Zero, sent |-> Zero, err |-> "none"]

IdleCancel == [pc |-> "idle", origin |-> None, chat |-> None, sender |-> None]

NoStatus == [kind |-> "none", shown |-> Zero]

Init ==
    /\ locks = {}
    /\ started_by = [c \in Chats |-> None]
    /\ triggers = [c \in Chats |-> None]
    /\ url = [t \in UrlTasks |-> IdleUrl]
    /\ valve = [t \in UrlTasks |-> "none"]
    /\ status = [t \in UrlTasks |-> NoStatus]
    /\ renders = [t \in UrlTasks |-> {}]
    /\ replies = [t \in UrlTasks |-> {}]
    /\ unlocked = [t \in UrlTasks |-> 0]
    /\ cb = [q \in CancelTasks |-> IdleCancel]

(* ------------------------ inputs of a request ------------------------- *)
\* msg.sender(): a user, or nothing
Senders == Users \cup {None}

\* response.content_length().unwrap_or_default(): an absent length is 0
Lengths ==
    {Zero} \cup {B(0, n) : n \in 1..MaxSmall} \cup {SizeLimit, Add(SizeLimit, B(0, 1))}

\* the sizes of the pieces in which the origin sends a body
PieceSizes == {B(0, 1), B(1, 0)}

\* outcome of a Telegram request (msg.reply, delete, ...): Ok or Err
Outcomes == {"ok", "err"}

(* --------------------------- handle_url ------------------------------- *)
\* a lock that admits every request
InsertedAlways(c) == TRUE

\* DashSet::insert: true iff the chat was not in the set
Inserted(c) == c \notin locks

\* the tasks are interchangeable: they are used in order
InOrder(t) == IF t = 1 THEN TRUE ELSE url[t - 1].pc # "idle"

\* handle_url has returned Ok (e = "none") or an error: "io" when the HTTP
\* request, the body or upload_stream failed, "eof" when upload_stream found
\* the stream ended by a closed valve, "reply" when a message request failed.
\* Its locals are gone; the chat, the result of locks.insert and the error
\* are kept for the record.
Returned(t, e) ==
    [IdleUrl EXCEPT !.pc = "done", !.chat = url[t].chat, !.lock = url[t].lock,
                    !.err = e]

\* the error of a message request that returned r
ReplyErr(r) == IF r = "ok" THEN "none" ELSE "reply"

\* an acquisition that records the sender before it looks at the lock
AcquireRecordsFirst(t, c, u, r) ==
    /\ url[t].pc = "idle"
    /\ InOrder(t)
    /\ u # None
    /\ started_by' = [started_by EXCEPT ![c] = u]
    /\ IF Inserted(c)
       THEN /\ locks' = locks \cup {c}
            /\ url' = [url EXCEPT ![t].pc = "send", ![t].chat = c, ![t].sender = u,
                                  ![t].lock = TRUE]
            /\ UNCHANGED replies
       ELSE /\ url' = [url EXCEPT ![t] = [IdleUrl EXCEPT !.pc = "done", !.chat = c,
                                                         !.err = ReplyErr(r)]]
            /\ replies' = [replies EXCEPT ![t] = IF r = "ok" THEN {"busy"} ELSE {}]
            /\ UNCHANGED locks
    /\ UNCHANGED <<triggers, valve, status, renders, unlocked, cb>>

\* lines 182-194: a message without sender is ignored; locks.insert; when the
\* chat is locked already the request is answered with the busy notice (r is
\* the outcome of that reply) and returns, before any guard is armed
Acquire(t, c, u, r) ==
    /\ url[t].pc = "idle"
    /\ InOrder(t)
    /\ IF u = None
       THEN /\ url' = [url EXCEPT ![t] = [IdleUrl EXCEPT !.pc = "done"]]
            /\ UNCHANGED <<locks, replies>>
       ELSE IF Inserted(c)
       THEN /\ locks' = locks \cup {c}
            /\ url' = [url EXCEPT ![t].pc = "owner", ![t].chat = c, ![t].sender = u,
                                  ![t].lock = TRUE]
            /\ UNCHANGED replies
       ELSE /\ url' = [url EXCEPT ![t] = [IdleUrl EXCEPT !.pc = "done", !.chat = c,
                                                         !.err = ReplyErr(r)]]
            /\ replies' = [replies EXCEPT ![t] = IF r = "ok" THEN {"busy"} ELSE {}]
            /\ UNCHANGED locks
    /\ UNCHANGED <<started_by, triggers, valve, status, renders, unlocked, cb>>

\* line 195: started_by.insert
RecordOwner(t) ==
    /\ url[t].pc = "owner"
    /\ started_by' = [started_by EXCEPT ![url[t].chat] = url[t].sender]
    /\ url' = [url EXCEPT ![t].pc = "send"]
    /\ UNCHANGED <<locks, triggers, valve, status, renders, replies, unlocked, cb>>

\* line 265
IsEmpty(len) == len = Zero

\* a ceiling that excludes the limit itself
TooLargeInclusive(len) == Leq(SizeLimit, len)

\* line 271
TooLarge(len) == Gt(len, SizeLimit)

\* where handle_url goes once the length is known (lines 264-282)
Admission(len) ==
    IF IsEmpty(len) THEN "empty"
    ELSE IF TooLarge(len) THEN "large"
    ELSE "reg"

\* a failed request that returns without the deferred unlock
RespondErrLeaks(t) ==
    /\ url[t].pc = "send"
    /\ url' = [url EXCEPT ![t] = Returned(t, "io")]
    /\ UNCHANGED <<shared, valve, status, renders, replies, unlocked, cb>>

\* lines 204-249: the request fails, or the file name does not decode
RespondErr(t) ==
    /\ url[t].pc = "send"
    /\ url' = [url EXCEPT ![t].pc = "unlock", ![t].err = "io"]
    /\ UNCHANGED <<shared, valve, status, renders, replies, unlocked, cb>>

\* lines 204-274: the response arrives; its length decides admission
Respond(t, len) ==
    /\ url[t].pc = "send"
    /\ url' = [url EXCEPT ![t].pc = Admission(len), ![t].length = len]
    /\ UNCHANGED <<shared, valve, status, renders, replies, unlocked, cb>>

\* a rejection that returns without the deferred unlock
RejectReplyLeaks(t, r) ==
    /\ url[t].pc \in {"empty", "large"}
    /\ replies' = [replies EXCEPT ![t] = IF r = "ok" THEN @ \cup {url[t].pc} ELSE @]
    /\ url' = [url EXCEPT ![t] = Returned(t, ReplyErr(r))]
    /\ UNCHANGED <<shared, valve, status, renders, unlocked, cb>>

\* lines 266-267 and 272-273: the rejection notice, then return
RejectReply(t, r) ==
    /\ url[t].pc \in {"empty", "large"}
    /\ replies' = [replies EXCEPT ![t] = IF r = "ok" THEN @ \cup {url[t].pc} ELSE @]
    /\ url' = [url EXCEPT ![t].pc = "unlock", ![t].err = ReplyErr(r)]
    /\ UNCHANGED <<shared, valve, status, renders, unlocked, cb>>

\* dropping the Trigger held for chat c, if any, closes the valve it belongs to
DropTriggerOf(c, how) ==
    IF triggers[c] = None THEN valve
    ELSE [valve EXCEPT ![triggers[c]] = how]

\* lines 277-282: Valved::new and triggers.insert (a replaced Trigger is dropped)
RegisterTrigger(t) ==
    /\ url[t].pc = "reg"
    /\ valve' = [DropTriggerOf(url[t].chat, "closed") EXCEPT ![t] = "open"]
    /\ triggers' = [triggers EXCEPT ![url[t].chat] = t]
    /\ url' = [url EXCEPT ![t].pc = "status"]
    /\ UNCHANGED <<locks, started_by, status, renders, replies, unlocked, cb>>

\* lines 296-302: the status message with the Cancel button
SendStatus(t, r) ==
    /\ url[t].pc = "status"
    /\ IF r = "ok"
       THEN /\ status' = [status EXCEPT ![t] = [kind |-> "starting", shown |-> Zero]]
            /\ url' = [url EXCEPT ![t].pc = "read"]
       ELSE /\ url' = [url EXCEPT ![t].pc = "untrigger", ![t].err = "reply"]
            /\ UNCHANGED status
    /\ UNCHANGED <<shared, valve, renders, replies, unlocked, cb>>

(* ------------------- the streamed upload (lines 304-337) -------------- *)
\* what is left of the declared length
Remaining(t) == Sub(url[t].length, url[t].read)

\* the origin sends pieces of size p; the model follows bodies that arrive
\* in at most MaxPieces pieces of the size in use
Arrives(t, p) == Leq(Remaining(t), Times(p, MaxPieces))

\* a read that hands on whatever the origin sent
NextPieceWhole(t, p) == p

\* the bytes a read of the body yields when the origin sent a piece of size
\* p: the HTTP layer ends the body at the declared length, whatever the
\* origin goes on sending
NextPiece(t, p) == MinB(p, Remaining(t))

\* a read that does not look at the valve
ReadChunkAnyValve(t, p, due) ==
    /\ url[t].pc = "read"
    /\ Arrives(t, p)
    /\ LET n == Add(url[t].read, NextPiece(t, p))
       IN  /\ url' = [url EXCEPT ![t].pc = "write", ![t].read = n]
           /\ renders' = [renders EXCEPT ![t] = IF due THEN @ \cup {n} ELSE @]
    /\ UNCHANGED <<shared, valve, status, replies, unlocked, cb>>

\* a read of the body through the progress reader: the count of bytes read
\* advances, and when the 3 second interval has elapsed (due) the callback
\* spawns a task that will edit the status message (lines 308-330)
ReadChunk(t, p, due) ==
    /\ url[t].pc = "read"
    /\ valve[t] = "open"
    /\ Arrives(t, p)
    /\ LET n == Add(url[t].read, NextPiece(t, p))
       IN  /\ url' = [url EXCEPT ![t].pc = "write", ![t].read = n]
           /\ renders' = [renders EXCEPT ![t] = IF due THEN @ \cup {n} ELSE @]
    /\ UNCHANGED <<shared, valve, status, replies, unlocked, cb>>

\* the origin fails while the body is read: upload_stream returns Err
ReadErr(t) ==
    /\ url[t].pc = "read"
    /\ valve[t] = "open"
    /\ url' = [url EXCEPT ![t].pc = "untrigger", ![t].err = "io"]
    /\ UNCHANGED <<shared, valve, status, renders, replies, unlocked, cb>>

\* the valve is closed: the read finds the end of the stream before the
\* declared length.  upload_stream either fails or stores the short file.
ReadClosed(t, r) ==
    /\ url[t].pc = "read"
    /\ valve[t] # "open"
    /\ url' = [url EXCEPT ![t].pc = IF r = "ok" THEN "file" ELSE "untrigger",
                          ![t].err = IF r = "ok" THEN "none" ELSE "eof"]
    /\ UNCHANGED <<shared, valve, status, renders, replies, unlocked, cb>>

\* the bytes read are sent to Telegram; after the last part upload_stream
\* returns the uploaded file
WritePart(t, r) ==
    /\ url[t].pc = "write"
    /\ IF r = "ok"
       THEN url' = [url EXCEPT ![t].sent = url[t].read,
                               ![t].pc = IF url[t].read = url[t].length
                                         THEN "file" ELSE "read"]
       ELSE url' = [url EXCEPT ![t].pc = "untrigger", ![t].err = "io"]
    /\ UNCHANGED <<shared, valve, status, renders, replies, unlocked, cb>>

\* a spawned progress task: status.lock().await.edit(..).await.ok()
\* (lines 312-329); editing a deleted message fails and is ignored
ApplyRender(t, v) ==
    /\ v \in renders[t]
    /\ renders' = [renders EXCEPT ![t] = @ \ {v}]
    /\ status' = [status EXCEPT ![t] =
                    IF @.kind = "deleted" THEN @
                    ELSE [kind |-> "progress", shown |-> v]]
    /\ UNCHANGED <<shared, url, valve, replies, unlocked, cb>>

\* lines 339-358: the completion notice with the uploaded file
SendFile(t, r) ==
    /\ url[t].pc = "file"
    /\ IF r = "ok"
       THEN /\ replies' = [replies EXCEPT ![t] = @ \cup {"uploaded"}]
            /\ url' = [url EXCEPT ![t].pc = "delete"]
       ELSE /\ url' = [url EXCEPT ![t].pc = "untrigger", ![t].err = "reply"]
            /\ UNCHANGED replies
    /\ UNCHANGED <<shared, valve, status, renders, unlocked, cb>>

\* lines 360-363: the status message is deleted
DeleteStatus(t, r) ==
    /\ url[t].pc = "delete"
    /\ status' = [status EXCEPT ![t] =
                    IF r = "ok" THEN [kind |-> "deleted", shown |-> Zero] ELSE @]
    /\ url' = [url EXCEPT ![t].pc = "untrigger", ![t].err = ReplyErr(r)]
    /\ UNCHANGED <<shared, valve, renders, replies, unlocked, cb>>

(* -------------- the deferred cleanup, in reverse order ---------------- *)
\* a cleanup that leaves the Trigger registered
DeferTriggerKeeps(t) ==
    /\ url[t].pc = "untrigger"
    /\ url' = [url EXCEPT ![t].pc = "unlock"]
    /\ UNCHANGED <<shared, valve, status, renders, replies, unlocked, cb>>

\* lines 285-287: triggers.remove; the removed Trigger is dropped
DeferTrigger(t) ==
    /\ url[t].pc = "untrigger"
    /\ valve' = DropTriggerOf(url[t].chat, "closed")
    /\ triggers' = [triggers EXCEPT ![url[t].chat] = None]
    /\ url' = [url EXCEPT ![t].pc = "unlock"]
    /\ UNCHANGED <<locks, started_by, status, renders, replies, unlocked, cb>>

\* a cleanup that forgets locks.remove
DeferUnlockKeeps(t) ==
    /\ url[t].pc = "unlock"
    /\ unlocked' = [unlocked EXCEPT ![t] = @ + 1]
    /\ url' = [url EXCEPT ![t].pc = "unown"]
    /\ UNCHANGED <<shared, valve, status, renders, replies, cb>>

\* a cleanup that empties locks
DeferUnlockClears(t) ==
    /\ url[t].pc = "unlock"
    /\ locks' = {}
    /\ unlocked' = [unlocked EXCEPT ![t] = @ + 1]
    /\ url' = [url EXCEPT ![t].pc = "unown"]
    /\ UNCHANGED <<started_by, triggers, valve, status, renders, replies, cb>>

\* lines 198-200: locks.remove
DeferUnlock(t) ==
    /\ url[t].pc = "unlock"
    /\ locks' = locks \ {url[t].chat}
    /\ unlocked' = [unlocked EXCEPT ![t] = @ + 1]
    /\ url' = [url EXCEPT ![t].pc = "unown"]
    /\ UNCHANGED <<started_by, triggers, valve, status, renders, replies, cb>>

\* line 201: started_by.remove, and handle_url returns
DeferOwner(t) ==
    /\ url[t].pc = "unown"
    /\ started_by' = [started_by EXCEPT ![url[t].chat] = None]
    /\ url' = [url EXCEPT ![t] = Returned(t, url[t].err)]
    /\ UNCHANGED <<locks, triggers, valve, status, renders, replies, unlocked, cb>>

\* lines 63-67: Bot::run logs the error a handler returned
Logged(t) == url[t].pc = "done" /\ url[t].err # "none"

(* -------------------------- handle_cancel ----------------------------- *)
\* a status message shows the Cancel button from its creation until it is
\* deleted or replaced by the cancellation notice
HasButton(o) == status[o].kind \in {"starting", "progress"}

CancelInOrder(q) == IF q = 1 THEN TRUE ELSE cb[q - 1].pc # "idle"

\* handle_cancel has returned
CancelReturned == [IdleCancel EXCEPT !.pc = "done"]

\* a user presses the Cancel button of transfer o's status message: the
\* callback query is dispatched to a new task (lines 59-67, 367-371)
Press(q, o, u) ==
    /\ cb[q].pc = "idle"
    /\ CancelInOrder(q)
    /\ HasButton(o)
    /\ cb' = [cb EXCEPT ![q] = [pc |-> "get", origin |-> o, chat |-> url[o].chat,
                                sender |-> u]]
    /\ UNCHANGED <<shared, url, valve, status, renders, replies, unlocked>>

\* line 381: only the recorded starter may cancel
IsStarter(owner, u) == owner = u

\* lines 376-381: started_by.get and the comparison with the sender
GetOwner(q) ==
    /\ cb[q].pc = "get"
    /\ LET owner == started_by[cb[q].chat]
       IN  cb' = [cb EXCEPT ![q] =
                    IF owner = None THEN CancelReturned
                    ELSE IF IsStarter(owner, cb[q].sender) THEN [@ EXCEPT !.pc = "fire"]
                    ELSE [@ EXCEPT !.pc = "alert"]]
    /\ UNCHANGED <<shared, url, valve, status, renders, replies, unlocked>>

\* lines 382-395: the alert shown to a user who is not the starter
Alert(q) ==
    /\ cb[q].pc = "alert"
    /\ cb' = [cb EXCEPT ![q] = CancelReturned]
    /\ UNCHANGED <<shared, url, valve, status, renders, replies, unlocked>>

\* a cancel that goes on as if a Trigger had been removed, whether or not one
\* was registered
FireUnchecked(q) ==
    /\ cb[q].pc = "fire"
    /\ valve' = DropTriggerOf(cb[q].chat, "cancelled")
    /\ triggers' = [triggers EXCEPT ![cb[q].chat] = None]
    /\ cb' = [cb EXCEPT ![q].pc = "unown"]
    /\ UNCHANGED <<locks, started_by, url, status, renders, replies, unlocked>>

\* lines 398-400: triggers.remove and drop(trigger)
Fire(q) ==
    /\ cb[q].pc = "fire"
    /\ LET c == cb[q].chat
       IN  IF triggers[c] = None
           THEN /\ cb' = [cb EXCEPT ![q] = CancelReturned]
                /\ UNCHANGED <<triggers, valve>>
           ELSE /\ valve' = DropTriggerOf(c, "cancelled")
                /\ triggers' = [triggers EXCEPT ![c] = None]
                /\ cb' = [cb EXCEPT ![q].pc = "unown"]
    /\ UNCHANGED <<locks, started_by, url, status, renders, replies, unlocked>>

\* line 401: started_by.remove
CancelOwner(q) ==
    /\ cb[q].pc = "unown"
    /\ started_by' = [started_by EXCEPT ![cb[q].chat] = None]
    /\ cb' = [cb EXCEPT ![q].pc = "edit"]
    /\ UNCHANGED <<locks, triggers, url, valve, status, renders, replies, unlocked>>

\* lines 403-409: the message that carries the button is loaded and edited
\* to the cancellation notice, then the query is answered; a deleted message
\* cannot be edited and the handler returns the error
CancelEdit(q) ==
    /\ cb[q].pc = "edit"
    /\ IF status[cb[q].origin].kind = "deleted"
       THEN /\ cb' = [cb EXCEPT ![q] = CancelReturned]
            /\ UNCHANGED status
       ELSE /\ status' = [status EXCEPT ![cb[q].origin] =
                            [kind |-> "cancelled", shown |-> Zero]]
            /\ cb' = [cb EXCEPT ![q] = CancelReturned]
    /\ UNCHANGED <<shared, url, valve, renders, replies, unlocked>>

(* -------------------------- specification ----------------------------- *)
\* the steps of a handle_url task; chats are the chats the message may come
\* from, dues says whether the progress interval may elapse during the upload
UrlStep(t, chats, dues) ==
    \/ \E c \in chats, u \in Senders, r \in Outcomes : Acquire(t, c, u, r)
    \/ RecordOwner(t)
    \/ RespondErr(t)
    \/ \E len \in Lengths : Respond(t, len)
    \/ \E r \in Outcomes : RejectReply(t, r)
    \/ RegisterTrigger(t)
    \/ \E r \in Outcomes : SendStatus(t, r)
    \/ \E p \in PieceSizes, due \in dues : ReadChunk(t, p, due)
    \/ ReadErr(t)
    \/ \E r \in Outcomes : ReadClosed(t, r)
    \/ \E r \in Outcomes : WritePart(t, r)
    \/ \E r \in Outcomes : SendFile(t, r)
    \/ \E r \in Outcomes : DeleteStatus(t, r)
    \/ DeferTrigger(t)
    \/ DeferUnlock(t)
    \/ DeferOwner(t)

\* the steps of a handle_cancel task
CancelStep(q) ==
    \/ \E o \in UrlTasks, u \in Users : Press(q, o, u)
    \/ GetOwner(q)
    \/ Alert(q)
    \/ Fire(q)
    \/ CancelOwner(q)
    \/ CancelEdit(q)

\* the tasks spawned by the progress callback
RenderStep(t) == \E v \in renders[t] : ApplyRender(t, v)

\* requests and presses of uploads that end within the progress interval
Next ==
    \/ \E t \in 1..NumUrlTasks : UrlStep(t, 1..NumChats, {FALSE})
    \/ \E q \in 1..NumCancelTasks : CancelStep(q)

Spec == Init /\ [][Next]_vars

\* a request that has started goes on: the runtime polls every spawned task
\* that is ready, and a closed valve ends the read that waits on it
UrlProgress(t) ==
    \/ RecordOwner(t)
    \/ RespondErr(t)
    \/ \E len \in Lengths : Respond(t, len)
    \/ \E r \in Outcomes : RejectReply(t, r)
    \/ RegisterTrigger(t)
    \/ \E r \in Outcomes : SendStatus(t, r)
    \/ \E p \in PieceSizes : ReadChunk(t, p, FALSE)
    \/ ReadErr(t)
    \/ \E r \in Outcomes : ReadClosed(t, r)
    \/ \E r \in Outcomes : WritePart(t, r)
    \/ \E r \in Outcomes : SendFile(t, r)
    \/ \E r \in Outcomes : DeleteStatus(t, r)
    \/ DeferTrigger(t)
    \/ DeferUnlock(t)
    \/ DeferOwner(t)

\* Spec under fair scheduling of the transfer tasks
SpecFair == Spec /\ \A t \in 1..NumUrlTasks : WF_vars(UrlProgress(t))

\* requests with their progress edits, and presses
NextProgress ==
    \/ \E t \in 1..NumReportedTasks : UrlStep(t, 1..NumChats, BOOLEAN)
    \/ \E t \in 1..NumReportedTasks : RenderStep(t)
    \/ \E q \in 1..NumReportedCancels : CancelStep(q)

SpecProgress == Init /\ [][NextProgress]_vars

\* requests without progress edits, and repeated presses
NextRepeat ==
    \/ \E t \in 1..NumUrlTasks : UrlStep(t, 1..NumChats, {FALSE})
    \/ \E q \in 1..NumReportedCancels : CancelStep(q)

SpecRepeat == Init /\ [][NextRepeat]_vars

\* requests and presses in several chats
NextChats ==
    \/ \E t \in 1..NumUrlTasks : UrlStep(t, 1..NumParallelChats, {FALSE})
    \/ \E q \in 1..NumCancelTasks : CancelStep(q)

SpecChats == Init /\ [][NextChats]_vars

(* ============================== claims ================================ *)
\* a request that is past locks.insert and has not yet run locks.remove
Holding(t) ==
    url[t].pc \in {"owner", "send", "empty", "large", "reg", "status", "read",
                   "write", "file", "delete", "untrigger", "unlock"}

Holders(c) == {t \in UrlTasks : Holding(t) /\ url[t].chat = c}

\* a request that found the chat locked: it was answered Busy and returned
Busy(t) == url[t].pc = "done" /\ url[t].chat # None /\ ~url[t].lock

\* C1: for every chat at most one request is past the lock acquisition at
\* any instant (the chat is locked exactly while one request holds it), and
\* a request that attempts the lock while another holds it gets the busy
\* reply, while one that attempts it with no holder succeeds.
C1_OneHolderPerChat ==
    /\ [](\A c \in Chats : Cardinality(Holders(c)) = IF c \in locks THEN 1 ELSE 0)
    /\ [][\A t \in UrlTasks :
            (url[t].pc = "idle" /\ url'[t].chat # None)
            => IF Holders(url'[t].chat) # {}
               THEN Busy(t)' /\ replies'[t] \subseteq {"busy"}
               ELSE url'[t].pc = "owner" /\ replies'[t] = {}]_vars

\* C1 witness: one request holds the chat while another got Busy for it
C1_Witness ==
    \E t1, t2 \in UrlTasks :
        /\ t1 # t2
        /\ Holding(t1)
        /\ Busy(t2)
        /\ url[t2].chat = url[t1].chat

\* the cancel task q takes a step
Steps(q) == cb'[q] # cb[q]

\* C2 (first half): a cancel request whose sender differs from the recorded
\* starter is answered with the alert, and none of its steps changes locks,
\* started_by, triggers, a valve or a status message.
C2_StrangerChangesNothing ==
    [][\A q \in CancelTasks :
         /\ (cb[q].pc = "get" /\ Steps(q) /\ started_by[cb[q].chat] \notin {None, cb[q].sender})
                => cb'[q].pc = "alert"
         /\ (Steps(q) /\ "alert" \in {cb[q].pc, cb'[q].pc})
                => UNCHANGED <<shared, valve, status>>]_vars

\* C2 (second half): the Trigger of a transfer is only dropped by a cancel
\* request whose sender is the user that started this transfer.
C2_OnlyStarterFires ==
    [][\A q \in CancelTasks :
         (cb[q].pc = "fire" /\ cb'[q].pc = "unown")
         => cb[q].sender = url[triggers[cb[q].chat]].sender]_vars

\* C2: a cancel request of another user than the recorded starter is answered
\* Unauthorized and changes nothing, and the cancel trigger of a transfer is
\* only ever fired by a request of the user recorded at its acquisition.
C2_CancelOnlyByOwner == C2_StrangerChangesNothing /\ C2_OnlyStarterFires

\* a request that has recorded itself in started_by and not yet returned
Recorded(t) ==
    url[t].pc \in {"send", "empty", "large", "reg", "status", "read", "write",
                   "file", "delete", "untrigger", "unlock", "unown"}

\* C3: a transfer that acquired the chat's lock releases it on every exit
\* path: once handle_url has returned, its deferred unlock has run exactly
\* once, its Trigger is neither registered nor alive, and a lock or owner
\* record still present for the chat belongs to another, running transfer;
\* the unlock never runs twice and never before the transfer ends.
C3_ReleasedOnEveryExit ==
    \A t \in UrlTasks :
        /\ unlocked[t] <= 1
        /\ unlocked[t] = 1 => url[t].pc \in {"unown", "done"}
        /\ (url[t].pc = "done" /\ url[t].lock) =>
              /\ unlocked[t] = 1
              /\ valve[t] # "open"
              /\ \A c \in Chats : triggers[c] # t
              /\ url[t].chat \in locks => Holders(url[t].chat) \ {t} # {}
              /\ started_by[url[t].chat] # None =>
                    \E t2 \in UrlTasks \ {t} :
                        /\ Recorded(t2)
                        /\ url[t2].chat = url[t].chat
                        /\ url[t2].sender = started_by[url[t].chat]

\* C3 witness: a cancelled transfer has returned while a rejected one, which
\* took the lock after it, is about to release it
C3_Witness ==
    \E t, t2 \in UrlTasks :
        /\ url[t].pc = "done" /\ url[t].lock /\ valve[t] = "cancelled"
        /\ url[t2].pc = "unlock" /\ "large" \in replies[t2]

\* a request whose declared length was refused
Rejected(t) == url[t].pc \in {"empty", "large"} \/ replies[t] \cap {"empty", "large"} # {}

\* C4: the declared length decides admission before a byte is read: 0 is
\* rejected as empty, 1 up to and including 2 * 1024^3 goes on to register
\* its Trigger, 2 * 1024^3 + 1 and more is rejected as too large; a rejected
\* request has read nothing and never has a Trigger, a valve or a status
\* message.
C4_AdmissionByLength ==
    /\ [][\A t \in UrlTasks :
            (url[t].pc = "send" /\ url'[t].pc \in {"empty", "large", "reg"}) =>
                LET len == url'[t].length
                IN  /\ url'[t].read = Zero
                    /\ (len.hi = 0 /\ len.lo = 0) => url'[t].pc = "empty"
                    /\ (len.hi = 0 /\ len.lo >= 1) => url'[t].pc = "reg"
                    /\ (len.hi = 1) => url'[t].pc = "reg"
                    /\ (len.hi = 2 /\ len.lo = 0) => url'[t].pc = "reg"
                    /\ (len.hi = 2 /\ len.lo >= 1) => url'[t].pc = "large"
                    /\ (len.hi >= 3) => url'[t].pc = "large"]_vars
    /\ [](\A t \in UrlTasks :
            Rejected(t) =>
                /\ url[t].pc \in {"empty", "large", "unlock", "unown", "done"}
                /\ url[t].read = Zero
                /\ valve[t] = "none"
                /\ status[t].kind = "none"
                /\ \A c \in Chats : triggers[c] # t)

\* C4 witness: a length of 2 * 1024^3 + 1 was rejected and a later request
\* of exactly 2 * 1024^3 is admitted
C4_Witness ==
    \E t1, t2 \in UrlTasks :
        /\ "large" \in replies[t1]
        /\ url[t2].pc = "reg"
        /\ url[t2].length = [hi |-> 2, lo |-> 0]

\* C5: a transfer request that finds the chat locked changes no shared
\* state: the step that gets Busy leaves locks, started_by and triggers as
\* they were, as well as every valve and status message, and the request
\* has returned: it never takes another step.
C5_BusyChangesNothing ==
    [][\A t \in UrlTasks :
         /\ (url[t].pc = "idle" /\ Busy(t)') =>
               /\ url'[t].chat \in locks
               /\ UNCHANGED <<shared, valve, status, renders, unlocked>>
         /\ Busy(t) => (url'[t] = url[t] /\ replies'[t] = replies[t])]_vars

\* C5 witness: a request of another user got Busy while the first user's
\* transfer streams, recorded as the starter
C5_Witness ==
    \E t1, t2 \in UrlTasks :
        /\ url[t1].pc = "read"
        /\ Busy(t2) /\ "busy" \in replies[t2]
        /\ url[t2].chat = url[t1].chat
        /\ started_by[url[t1].chat] = url[t1].sender
        /\ triggers[url[t1].chat] = t1

\* C6: once the starter's cancel has dropped the Trigger of a transfer, that
\* transfer sends no completion notice: the "Uploaded in ..." reply is not
\* added to its replies afterwards.
C6_NoCompletionAfterCancel ==
    [][\A t \in UrlTasks :
         valve[t] = "cancelled" =>
             ("uploaded" \in replies'[t] => "uploaded" \in replies[t])]_vars

\* the lease of transfer t is released: its cleanup has removed the lock, its
\* Trigger is not registered, and a lock on the chat is another transfer's
Released(t) ==
    /\ url[t].pc \in {"unown", "done"}
    /\ \A c \in Chats : triggers[c] # t
    /\ url[t].chat \in locks => Holders(url[t].chat) \ {t} # {}

\* C7: after the starter's cancel dropped the Trigger of a transfer, the
\* lease of the chat is eventually released (fair scheduling of the transfer
\* task), and a request that attempts the lock of a chat that is not locked
\* acquires it instead of getting Busy.
C7_CancelReleasesLease ==
    /\ \A t \in UrlTasks : (valve[t] = "cancelled") ~> Released(t)
    /\ [][\A t \in UrlTasks :
            (url[t].pc = "idle" /\ url'[t].chat # None /\ url'[t].chat \notin locks)
            => (url'[t].pc = "owner" /\ url'[t].chat \in locks')]_vars

\* C7 witness: the cancelled transfer has returned and the next request in
\* the same chat holds the lock and waits for its response
C7_Witness ==
    \E t, t2 \in UrlTasks :
        /\ valve[t] = "cancelled" /\ url[t].pc = "done"
        /\ url[t2].pc = "send" /\ url[t2].chat = url[t].chat

\* C8: after the final status write of a transfer (the cancellation notice
\* written by handle_cancel, or the deletion of the status message) no
\* progress edit is applied to its status message.
C8_NoProgressAfterFinal ==
    [][\A t \in UrlTasks :
         status[t].kind \in {"cancelled", "deleted"} => status'[t].kind # "progress"]_vars

\* a transfer between the creation of its valve and the end of upload_stream
Streaming(t) == url[t].pc \in {"status", "read", "write", "file"}

FailedIo(t) == url[t].pc = "done" /\ url[t].err = "io"

Owning(t) ==
    url[t].pc \in {"send", "empty", "large", "reg", "status", "read", "write",
                   "file", "delete", "untrigger", "unlock"}

\* C11: from the moment a transfer has recorded its initiator in started_by
\* until that transfer releases the lease, started_by holds the initiator's
\* id for the chat, whatever cancel requests and the cleanup of an earlier
\* transfer of the chat do in between.
C11_OwnerFixed ==
    \A t \in UrlTasks : Owning(t) => started_by[url[t].chat] = url[t].sender

\* a transfer that holds the lease and waits for the response headers, or
\* has accepted them and is about to register its Trigger
Negotiating(t) == url[t].pc \in {"send", "reg"}

\* an uncancelled lease of chat c whose owner is user u, in one of the two
\* phases
LeaseOf(c, u) ==
    {t \in UrlTasks : /\ Negotiating(t) \/ Streaming(t)
                      /\ url[t].chat = c
                      /\ url[t].sender = u
                      /\ valve[t] # "cancelled"}

\* C12 (first half): a cancel request of the owner of the chat's lease fires
\* the cancel handle in every phase: handle_cancel does not return without
\* having dropped a Trigger while a lease of its sender is Negotiating or
\* Streaming in the chat.
C12_OwnerCancelFires ==
    [][\A q \in CancelTasks :
         (Steps(q) /\ cb[q].pc \in {"get", "fire"} /\ cb'[q].pc = "done")
         => LeaseOf(cb[q].chat, cb[q].sender) = {}]_vars

\* C12 (second half): a cancel request for a chat without lease is answered
\* NotFound: it is not answered with the alert, fires nothing and changes
\* neither locks, started_by, triggers, a valve nor a status message.
C12_NoLeaseNotFound ==
    [][\A q \in CancelTasks :
         (Steps(q) /\ cb[q].pc \in {"get", "fire"} /\ cb[q].chat \notin locks)
         => /\ cb'[q].pc \in {"fire", "done"}
            /\ UNCHANGED <<shared, valve, status>>]_vars

\* C12: whenever a lease exists for a chat and a cancel request arrives from
\* the lease's owner, the cancel fires the lease's cancel handle, in the
\* Negotiating phase as well as in the Streaming phase; when no lease exists
\* the request is NotFound and changes nothing.
C12_OwnerCancelSignalled == C12_OwnerCancelFires /\ C12_NoLeaseNotFound

UrlChat(t) == IF url'[t] = url[t] THEN None ELSE url'[t].chat

\* the chat of the press that cancel task q handles in this step, None when
\* the task takes no step
CancelChat(q) ==
    IF ~Steps(q) THEN None
    ELSE IF cb[q].chat # None THEN cb[q].chat ELSE cb'[q].chat

\* what the bot holds for chat b: its lock, owner record and Trigger, and
\* the position, valve and status message of every transfer of the chat
ChatState(b) ==
    <<b \in locks, started_by[b], triggers[b],
      [t \in UrlTasks |-> IF url[t].chat = b
                          THEN <<url[t], valve[t], status[t]>> ELSE <<>>]>>

\* C14: transfers in different chats are isolated: a step of a transfer or
\* of a cancel for chat A (acquire, reject, fail, cancel, release) leaves the
\* lock, the owner record and the Trigger of every other chat B unchanged,
\* as well as the position, the valve and the status message of B's
\* transfers; and a request for a chat that is not locked acquires it,
\* whatever is locked, failing or cancelled elsewhere.
C14_ChatsIsolated ==
    [][\A b \in Chats :
         /\ ( /\ \A t \in UrlTasks : UrlChat(t) # b
              /\ \A q \in CancelTasks : CancelChat(q) # b )
            => ChatState(b)' = ChatState(b)
         /\ \A t \in UrlTasks :
              (url[t].pc = "idle" /\ url'[t].chat = b /\ b \notin locks)
              => (url'[t].pc = "owner" /\ locks' = locks \cup {b})]_vars

\* C14 witness: the transfer of one chat was cancelled and has returned,
\* while the transfer of another chat streams with its lock, owner record,
\* Trigger and open valve
C14_Witness ==
    \E t1, t2 \in UrlTasks :
        /\ url[t1].chat # None /\ url[t2].chat # None
        /\ url[t1].chat # url[t2].chat
        /\ valve[t1] = "cancelled" /\ url[t1].pc = "done"
        /\ url[t2].pc = "read" /\ valve[t2] = "open"
        /\ url[t2].chat \in locks
        /\ started_by[url[t2].chat] = url[t2].sender
        /\ triggers[url[t2].chat] = t2

\* C15: the byte count that the progress reporter reads is never ahead of
\* delivery: while a transfer streams, the count of the progress reader,
\* every value handed to the progress callback and the count shown by the
\* status message are at most the number of bytes the sink has accepted.
C15_CounterBehindDelivery ==
    \A t \in UrlTasks :
        Streaming(t) =>
            /\ Leq(url[t].read, url[t].sent)
            /\ \A v \in renders[t] : Leq(v, url[t].sent)
            /\ Leq(status[t].shown, url[t].sent)

\* C16: the progress edits of a transfer are applied to its status message
\* in the order in which the callback produced them: from one applied
\* progress edit to the next the byte count shown never decreases, however
\* the spawned tasks are scheduled.
C16_RendersInOrder ==
    [][\A t \in UrlTasks :
         (status[t].kind = "progress" /\ status'[t].kind = "progress")
         => Leq(status[t].shown, status'[t].shown)]_vars

\* C17: at most one progress edit of a transfer is outstanding at any time:
\* when the interval elapses while an earlier edit has not been applied, no
\* further edit task is spawned.
C17_OneRenderOutstanding ==
    \A t \in UrlTasks : Cardinality(renders[t]) <= 1

\* C18: cancellation takes effect at the next chunk boundary: once a cancel
\* has dropped the Trigger of a transfer, the relay obtains no further chunk
\* from the source (the count of bytes read stays as it is and no new write
\* is begun), and it writes at most the chunk it had already read.
C18_StopsAtChunkBoundary ==
    [][\A t \in UrlTasks :
         (valve[t] = "cancelled" /\ url'[t].pc # "done") =>
             /\ url'[t].read = url[t].read
             /\ url'[t].pc = "write" => url[t].pc = "write"
             /\ url'[t].sent # url[t].sent =>
                   (url[t].pc = "write" /\ url'[t].sent = url[t].read)]_vars

\* C18 witness: a transfer of two pieces was cancelled after its first piece
\* was read and written; the next read found the stream ended and
\* upload_stream has returned with half of the declared bytes sent
C18_Witness ==
    \E t \in UrlTasks :
        /\ valve[t] = "cancelled"
        /\ url[t].pc = "untrigger" /\ url[t].err = "eof"
        /\ url[t].read = [hi |-> 1, lo |-> 0]
        /\ url[t].sent = url[t].read
        /\ url[t].length = [hi |-> 2, lo |-> 0]

\* handle_url of transfer o has returned: the transfer failed, was cancelled
\* or completed
Ended(o) == url[o].pc = "done"

\* C19: a cancel press is tied to the transfer whose status message carries
\* the button: a press on the status message of a transfer that has ended
\* never drops a Trigger (which could only be a later transfer's), and the
\* cancellation notice is only written to the status message of a transfer
\* whose Trigger a cancel has dropped.
C19_CancelTiedToStatus ==
    /\ [][\A q \in CancelTasks :
            (cb[q].pc = "fire" /\ Ended(cb[q].origin)) => cb'[q].pc # "unown"]_vars
    /\ [][\A t \in UrlTasks :
            (status[t].kind # "cancelled" /\ status'[t].kind = "cancelled")
            => valve[t] = "cancelled"]_vars

\* C20: a chat that has a Trigger registered in triggers is locked: a cancel
\* handle never exists for a chat that no running transfer holds, and the
\* registered Trigger is the one of the transfer that holds the chat.
C20_TriggerImpliesLock ==
    \A c \in Chats :
        triggers[c] # None =>
            /\ c \in locks
            /\ Holding(triggers[c])
            /\ url[triggers[c]].chat = c
            /\ valve[triggers[c]] = "open"

\* C20 witness: the Trigger of a transfer is registered for a chat that an
\* earlier transfer has just unlocked and whose cleanup has not yet removed
\* the owner record
C20_Witness ==
    \E t1, t2 \in UrlTasks :
        /\ url[t1].pc = "unown"
        /\ url[t2].chat = url[t1].chat
        /\ triggers[url[t2].chat] = t2
        /\ url[t2].pc = "read"

====
